---- MODULE Spec2Model ----
(***************************************************************************)
(* Model of the PDF extraction skill (samples/PdfExtractionSkill/app.py):  *)
(* the boundary-aware chunker split_by_pages, the result normalisation of  *)
(* extract_pdf with its helpers _java_str and _java_calendar_to_iso, and   *)
(* the record loop of the pdf_extraction endpoint.                         *)
(*                                                                         *)
(* A Python str is a sequence of one-character strings; offsets are        *)
(* 0-based as in the source, and Slice(s, a, b) is s[a:b].                 *)
(***************************************************************************)
EXTENDS Integers, Sequences, FiniteSets, TLC

VARIABLES
    \* split_by_pages
    text, max_length, overlap,   \* its arguments
    position, chunks,            \* its locals
    slices,                      \* the slices text[position : position+length] taken so far
    pc,                          \* "loop" while in the while loop, "done" once returned
    \* extract_pdf
    pdf_bytes,                   \* its argument
    doc,                         \* the document the engine loaded
    page_num, pages, full_text_parts,   \* the per-page loop
    extracted,                   \* the returned dict, once returned
    xpc,                         \* "load", "pages" in the page loop, then "done" or "raised"
    \* pdf_extraction
    config,                      \* CHUNK_ENABLED, CHUNK_MAX_LENGTH, CHUNK_OVERLAP
    values,                      \* the records of the request body
    idx,                         \* the record the loop is at, from 1
    results,                     \* the output entries so far
    engine_calls, chunker_calls, \* the records extract_pdf / split_by_pages ran for
    bpc,                         \* "loop", then "responded", or "aborted" by an exception
    \* split_by_sentences
    s_text,                      \* its argument
    s_pos,                       \* the character the for loop is at, from 1
    sentences, current,          \* its locals
    spc                          \* "scan" in the for loop, "done" once returned

chunkVars == <<text, max_length, overlap, position, chunks, slices, pc>>
extractVars == <<pdf_bytes, doc, page_num, pages, full_text_parts, extracted, xpc>>

batchVars == <<config, values, idx, results, engine_calls, chunker_calls, bpc>>

sentenceVars == <<s_text, s_pos, sentences, current, spc>>

vars == <<chunkVars, extractVars, batchVars, sentenceVars>>

(***************************************************************************)
(* Bounds of the model.                                                    *)
(***************************************************************************)
MaxLen == 4          \* longest exhaustively enumerated text
MaxMaxLength == 5    \* largest max_length tried on the short texts
MaxOverlap == 3      \* largest overlap tried on the short texts
HeadLen == 4         \* longest varying head of a text longer than the look-back window
LiveLen == 3         \* longest text of the runs checked for termination under fairness
MaxPages == 3        \* most pages of an engine document
MaxDatetimeMillis == 2999   \* stands for the last instant datetime can represent (year 9999)
MaxRecords == 2      \* most records of a batch
EdgeLen == 4         \* longest tail of a text that opens with a break
MaxSentenceLen == 4  \* longest exhaustively enumerated text of split_by_sentences

(***************************************************************************)
(* Program constants.                                                      *)
(***************************************************************************)
LookBack == 100      \* a break is searched within the last 100 characters

Min(a, b) == IF a < b THEN a ELSE b
Max(a, b) == IF a > b THEN a ELSE b

(***************************************************************************)
(* Strings.                                                                *)
(***************************************************************************)
Alphabet == {"a", ".", " ", "\n"}
Whitespace == {" ", "\n"}

IsSpace(c) == c \in Whitespace

\* s[a:b] for 0 <= a, with Python's clamping of b to len(s)
Slice(s, a, b) == SubSeq(s, a + 1, Min(b, Len(s)))

RECURSIVE LStrip(_)
LStrip(s) == IF s # <<>> /\ IsSpace(Head(s)) THEN LStrip(Tail(s)) ELSE s

RECURSIVE RStrip(_)
RStrip(s) ==
    IF s # <<>> /\ IsSpace(s[Len(s)]) THEN RStrip(SubSeq(s, 1, Len(s) - 1)) ELSE s

\* str.strip()
Strip(s) == RStrip(LStrip(s))

\* does pat occur in s at 0-based offset i
OccursAt(s, pat, i) ==
    /\ i >= 0
    /\ i + Len(pat) <= Len(s)
    /\ \A k \in 1..Len(pat) : s[i + k] = pat[k]

\* str.rfind(pat): the highest offset at which pat occurs, or -1
RFind(s, pat) ==
    LET found == {i \in 0..(Len(s) - Len(pat)) : OccursAt(s, pat, i)}
    IN  IF found = {} THEN -1
        ELSE CHOOSE i \in found : \A j \in found : j <= i

ParagraphBreak == <<"\n", "\n">>
SentenceBreak == <<".", " ">>
WordBreak == <<" ">>

(***************************************************************************)
(* split_by_pages: one iteration of the while loop, as operators.          *)
(***************************************************************************)
SearchStart(length) == Max(0, length - LookBack)

\* the cascade paragraph -> sentence -> word over the tentative window
BreakPoint(chunk, search_start) ==
    LET bp1 == RFind(chunk, ParagraphBreak)
        bp2 == IF bp1 < search_start THEN RFind(chunk, SentenceBreak) ELSE bp1
        bp3 == IF bp2 < search_start THEN RFind(chunk, WordBreak) ELSE bp2
    IN  bp3

\* mutation: the accepted break keeps one character more
AcceptedLengthWide(bp) == bp + 2

AcceptedLength(bp) == bp + 1

\* the length of the slice taken at pos
ChunkLength(txt, maxlen, pos) ==
    LET length == Min(maxlen, Len(txt) - pos)
    IN  IF pos + length < Len(txt)
        THEN LET search_start == SearchStart(length)
                 bp == BreakPoint(Slice(txt, pos, pos + length), search_start)
             IN  IF bp > search_start THEN AcceptedLength(bp) ELSE length
        ELSE length

\* mutation: the forward-progress guard tests < instead of <=
NewPositionStall(pos, length, ovl) ==
    LET new_position == pos + length - ovl
    IN  IF new_position < pos THEN pos + length ELSE new_position

\* mutation: the advance steps over the character after the slice
NewPositionSkip(pos, length, ovl) ==
    LET new_position == pos + length - ovl + 1
    IN  IF new_position <= pos THEN pos + length ELSE new_position

NewPosition(pos, length, ovl) ==
    LET new_position == pos + length - ovl
    IN  IF new_position <= pos THEN pos + length ELSE new_position

AppendChunk(cs, chunk_text) ==
    IF chunk_text # <<>> THEN Append(cs, chunk_text) ELSE cs

(***************************************************************************)
(* Inputs of split_by_pages.                                               *)
(***************************************************************************)
RECURSIVE TextsOfLen(_)
TextsOfLen(n) ==
    IF n = 0 THEN {<<>>}
    ELSE {Append(t, c) : t \in TextsOfLen(n - 1), c \in Alphabet}

TextsUpTo(n) == UNION {TextsOfLen(k) : k \in 0..n}

\* c repeated n times
Rep(c, n) == [i \in 1..n |-> c]

\* texts longer than the look-back window: a varying head, a run of letters,
\* and a tail that keeps the first window short of the end of the text
LongTails == {<<"a", "a", "a", "a">>, <<" ", "a", ".", " ", "a">>}
LongTexts ==
    {h \o Rep("a", LookBack - 2) \o t : h \in TextsUpTo(HeadLen), t \in LongTails}
LongMaxLengths == {LookBack + 1, LookBack + 2}
LongOverlaps == {0, 1, LookBack + 3}

LiveInputs ==
    {"short"} \X TextsUpTo(LiveLen) \X (1..MaxMaxLength) \X (0..MaxOverlap)

\* s repeated n times
RepSeq(s, n) == [i \in 1..(n * Len(s)) |-> s[((i - 1) % Len(s)) + 1]]

\* texts that open with a sentence or paragraph break, which lies exactly at
\* search_start in a first window of at most 100 characters
RECURSIVE PlainTextsOfLen(_)
PlainTextsOfLen(n) ==
    IF n = 0 THEN {<<>>}
    ELSE {Append(t, c) : t \in PlainTextsOfLen(n - 1), c \in {"a", " "}}

EdgeTexts ==
    {h \o t : h \in {SentenceBreak, ParagraphBreak},
              t \in UNION {PlainTextsOfLen(k) : k \in 0..EdgeLen}}

\* "A." * 150, split with max_length = 100 and overlap = 0
SentenceRun == RepSeq(<<"A", ".">>, 150)
SentenceRunInput == <<"run", SentenceRun, 100, 0>>

SplitInputs ==
    ({"short"} \X TextsUpTo(MaxLen) \X (1..MaxMaxLength) \X (0..MaxOverlap))
    \cup ({"long"} \X LongTexts \X LongMaxLengths \X LongOverlaps)
    \cup {SentenceRunInput}
    \cup ({"edge"} \X EdgeTexts \X (1..MaxMaxLength) \X (0..MaxOverlap))

(***************************************************************************)
(* split_by_pages as a state machine.                                      *)
(***************************************************************************)
SplitStart(inputs) ==
    /\ \E inp \in inputs :
          /\ text = inp[2]
          /\ max_length = inp[3]
          /\ overlap = inp[4]
    /\ position = 0
    /\ chunks = <<>>
    /\ slices = <<>>
    /\ pc = "loop"

SplitIdle ==
    /\ text = <<>>
    /\ max_length = 1
    /\ overlap = 0
    /\ position = 0
    /\ chunks = <<>>
    /\ slices = <<>>
    /\ pc = "idle"

ExtractIdle ==
    /\ pdf_bytes = <<>>
    /\ doc = <<>>
    /\ page_num = 0
    /\ pages = <<>>
    /\ full_text_parts = <<>>
    /\ extracted = <<>>
    /\ xpc = "idle"

BatchIdle ==
    /\ config = <<>>
    /\ values = <<>>
    /\ idx = 0
    /\ results = <<>>
    /\ engine_calls = {}
    /\ chunker_calls = {}
    /\ bpc = "idle"

SentenceIdle ==
    /\ s_text = <<>>
    /\ s_pos = 0
    /\ sentences = <<>>
    /\ current = <<>>
    /\ spc = "idle"

InitSplit == SplitStart(SplitInputs) /\ ExtractIdle /\ BatchIdle /\ SentenceIdle

\* the runs checked for termination under fairness
InitLive == SplitStart(LiveInputs) /\ ExtractIdle /\ BatchIdle /\ SentenceIdle

\* one pass through the body of 'while position < len(text)'
SplitIterate ==
    /\ pc = "loop"
    /\ position < Len(text)
    /\ LET length == ChunkLength(text, max_length, position)
           chunk_text == Strip(Slice(text, position, position + length))
       IN  /\ chunks' = AppendChunk(chunks, chunk_text)
           /\ slices' = Append(slices, [position |-> position,
                                        length |-> length,
                                        emitted |-> chunk_text # <<>>])
           /\ position' = NewPosition(position, length, overlap)
    /\ UNCHANGED <<text, max_length, overlap, pc>>
    /\ UNCHANGED <<extractVars, batchVars, sentenceVars>>

\* the loop condition fails: return chunks
SplitReturn ==
    /\ pc = "loop"
    /\ ~(position < Len(text))
    /\ pc' = "done"
    /\ UNCHANGED <<text, max_length, overlap, position, chunks, slices>>
    /\ UNCHANGED <<extractVars, batchVars, sentenceVars>>

NextSplit == SplitIterate \/ SplitReturn

(***************************************************************************)
(* extract_pdf and its helpers.                                            *)
(*                                                                         *)
(* An optional value is None or Some(v).  The engine's document is a       *)
(* record of its page texts, the values getCustomMetadataValue returns,    *)
(* the two calendars and the version.  The measured duration               *)
(* extraction_time_ms is left out of the result.                           *)
(***************************************************************************)
None == <<>>
Some(v) == <<v>>
Value(opt) == opt[1]

\* truth value of an optional string in 'if val:'
Truthy(val) == val # None /\ Len(Value(val)) > 0

\* _java_str
JavaStr(val) ==
    IF val = None THEN None
    ELSE LET s == Strip(Value(val))
         IN  IF s # <<>> THEN Some(s) ELSE None

\* datetime.fromtimestamp raises past the last instant of datetime
FromTimestampRaises(millis) == millis > MaxDatetimeMillis

\* datetime.fromtimestamp(millis / 1000.0, tz=utc).isoformat()
IsoFormat(millis) ==
    [fmt |-> "iso8601+00:00",
     seconds |-> millis \div 1000,
     microsecond |-> (millis % 1000) * 1000]

\* str(cal.getTime()): the text of a java.util.Date
JavaDateText(millis) ==
    [fmt |-> "java.util.Date",
     seconds |-> millis \div 1000,
     microsecond |-> 0]

\* _java_calendar_to_iso; a calendar is its instant getTimeInMillis()
JavaCalendarToIso(cal) ==
    IF cal = None THEN None
    ELSE IF ~FromTimestampRaises(Value(cal).millis)
         THEN Some(IsoFormat(Value(cal).millis))
         \* except Exception: return str(cal.getTime())
         ELSE Some(JavaDateText(Value(cal).millis))

RECURSIVE WordCountFrom(_, _, _)
WordCountFrom(s, i, in_word) ==
    IF i > Len(s) THEN 0
    ELSE IF IsSpace(s[i]) THEN WordCountFrom(s, i + 1, FALSE)
    ELSE (IF in_word THEN 0 ELSE 1) + WordCountFrom(s, i + 1, TRUE)

\* len(s.split())
WordCount(s) == WordCountFrom(s, 1, FALSE)

\* mutation: pages are joined by a single newline
RECURSIVE JoinPartsNarrow(_)
JoinPartsNarrow(parts) ==
    IF parts = <<>> THEN <<>>
    ELSE IF Len(parts) = 1 THEN parts[1]
    ELSE parts[1] \o <<"\n">> \o JoinPartsNarrow(Tail(parts))

\* "\n\n".join(parts)
RECURSIVE JoinParts(_)
JoinParts(parts) ==
    IF parts = <<>> THEN <<>>
    ELSE IF Len(parts) = 1 THEN parts[1]
    ELSE parts[1] \o ParagraphBreak \o JoinParts(Tail(parts))

PageEntry(num, page_text) ==
    [page_num |-> num,
     text |-> page_text,
     char_count |-> Len(page_text),
     word_count |-> WordCount(page_text)]

\* meta_fields: the Python key of each engine key
MetaFields == [subject |-> "Subject", keywords |-> "Keywords",
               creator |-> "Creator", producer |-> "Producer"]
MetaKeys == DOMAIN MetaFields

\* the metadata dict: the custom values that pass 'if val:', and pdfVersion
Metadata(d) ==
    LET kept == {k \in MetaKeys : Truthy(d.info[MetaFields[k]])}
        keys == kept \cup (IF d.version # 0 THEN {"pdfVersion"} ELSE {})
    IN  [k \in keys |->
            IF k \in kept THEN Value(d.info[MetaFields[k]]) ELSE <<d.version>>]

\* the dict extract_pdf returns after the page loop
ExtractReturn(d, pgs, parts) ==
    LET full_text == JoinParts(parts)
    IN  [content |-> full_text,
         page_count |-> Len(d.page_texts),
         word_count |-> WordCount(full_text),
         character_count |-> Len(full_text),
         title |-> JavaStr(d.info["Title"]),
         author |-> JavaStr(d.info["Author"]),
         created_date |-> JavaCalendarToIso(d.creation),
         modified_date |-> JavaCalendarToIso(d.modification),
         language |-> None,
         metadata |-> Metadata(d),
         pages |-> pgs]

\* Loader.loadPDF: bytes are what the engine makes of them, a document or an
\* exception
LoadRaises(bytes) == ~bytes.loads
LoadPDF(bytes) == bytes.document

\* extract_pdf: what it returns, or that it raises
ExtractPdf(bytes) ==
    IF LoadRaises(bytes) THEN [raised |-> TRUE, value |-> None]
    ELSE LET d == LoadPDF(bytes)
         IN  [raised |-> FALSE,
              value |-> Some(ExtractReturn(
                  d,
                  [i \in 1..Len(d.page_texts) |-> PageEntry(i, d.page_texts[i])],
                  d.page_texts))]

(***************************************************************************)
(* Engine documents.                                                       *)
(***************************************************************************)
PageTexts == {<<>>, <<" ">>, <<"a">>, <<"a", " ", "a">>, <<"a", ".", "\n">>}

RECURSIVE PageSeqsOfLen(_)
PageSeqsOfLen(n) ==
    IF n = 0 THEN {<<>>}
    ELSE {Append(ps, t) : ps \in PageSeqsOfLen(n - 1), t \in PageTexts}

PageSeqs == UNION {PageSeqsOfLen(k) : k \in 0..MaxPages}

JavaStrings == {None, Some(<<>>), Some(<<" ">>), Some(<<" ", "a", " ">>)}

InfoKeys == {"Title", "Author", "Subject", "Keywords", "Creator", "Producer"}
Infos == [InfoKeys -> JavaStrings]
PlainInfo == [k \in InfoKeys |-> Some(<<"a">>)]

Calendars == {None} \cup {Some([millis |-> m]) : m \in {0, 1500, MaxDatetimeMillis + 1}}
PlainCalendar == Some([millis |-> 1500])

Versions == {0, 14}

\* documents varying in their pages, in their strings, or in their dates
ExtractDocs ==
    {[page_texts |-> ps, info |-> PlainInfo, creation |-> PlainCalendar,
      modification |-> None, version |-> 14] : ps \in PageSeqs}
    \cup {[page_texts |-> << <<"a">> >>, info |-> inf, creation |-> None,
           modification |-> PlainCalendar, version |-> 0] : inf \in Infos}
    \cup {[page_texts |-> << <<"a">> >>, info |-> PlainInfo, creation |-> c,
           modification |-> m, version |-> v] :
             c \in Calendars, m \in Calendars, v \in Versions}

NoDocument == [page_texts |-> <<>>, info |-> PlainInfo, creation |-> None,
               modification |-> None, version |-> 0]

\* bytes the engine cannot load, and the bytes of each document
CorruptBytes == [loads |-> FALSE, document |-> NoDocument]
BytesOf(d) == [loads |-> TRUE, document |-> d]

(***************************************************************************)
(* extract_pdf as a state machine.                                         *)
(***************************************************************************)
InitExtract ==
    /\ SplitIdle
    /\ BatchIdle
    /\ SentenceIdle
    /\ pdf_bytes \in {CorruptBytes} \cup {BytesOf(d) : d \in ExtractDocs}
    /\ doc = NoDocument
    /\ page_num = 1
    /\ pages = <<>>
    /\ full_text_parts = <<>>
    /\ extracted = None
    /\ xpc = "load"

\* doc = Loader.loadPDF(rar_buffer)
ExtractLoad ==
    /\ xpc = "load"
    /\ IF LoadRaises(pdf_bytes)
       THEN /\ xpc' = "raised"
            /\ doc' = doc
       ELSE /\ xpc' = "pages"
            /\ doc' = LoadPDF(pdf_bytes)
    /\ UNCHANGED <<pdf_bytes, page_num, pages, full_text_parts, extracted>>
    /\ UNCHANGED <<chunkVars, batchVars, sentenceVars>>

\* one pass through 'for page_num in range(1, page_count + 1)'
ExtractPage ==
    /\ xpc = "pages"
    /\ page_num <= Len(doc.page_texts)
    /\ LET page_text == doc.page_texts[page_num]
       IN  /\ pages' = Append(pages, PageEntry(page_num, page_text))
           /\ full_text_parts' = Append(full_text_parts, page_text)
    /\ page_num' = page_num + 1
    /\ UNCHANGED <<pdf_bytes, doc, extracted, xpc>>
    /\ UNCHANGED <<chunkVars, batchVars, sentenceVars>>

\* the join, the metadata, the dates and the return
ExtractFinish ==
    /\ xpc = "pages"
    /\ page_num > Len(doc.page_texts)
    /\ extracted' = Some(ExtractReturn(doc, pages, full_text_parts))
    /\ xpc' = "done"
    /\ UNCHANGED <<pdf_bytes, doc, page_num, pages, full_text_parts>>
    /\ UNCHANGED <<chunkVars, batchVars, sentenceVars>>

NextExtract == ExtractLoad \/ ExtractPage \/ ExtractFinish

SpecExtract == InitExtract /\ [][NextExtract]_vars

(***************************************************************************)
(* pdf_extraction: the record loop.                                        *)
(*                                                                         *)
(* A record is an object with an optional recordId and a data value that   *)
(* is absent, not a dict, or a dict; file_data is absent, falsy (None, {}, *)
(* ""), a truthy non-dict, or a dict; file_data.data is absent, empty or a *)
(* string.  A base64 string is what b64decode makes of it: bytes or an     *)
(* exception.                                                              *)
(***************************************************************************)
EmptyDict == [k \in {} |-> k]

MissingFileData == "Missing required input 'file_data'"
EmptyFileData == "file_data.data is empty"
InvalidBase64 == "Invalid base64 in file_data.data"
ExtractionFailed == "PDF extraction failed"

\* the whole split_by_pages call
RECURSIVE SplitFrom(_, _, _, _, _)
SplitFrom(txt, maxlen, ovl, pos, cs) ==
    IF pos < Len(txt)
    THEN LET length == ChunkLength(txt, maxlen, pos)
         IN  SplitFrom(txt, maxlen, ovl, NewPosition(pos, length, ovl),
                       AppendChunk(cs, Strip(Slice(txt, pos, pos + length))))
    ELSE cs

SplitByPages(txt, maxlen, ovl) == SplitFrom(txt, maxlen, ovl, 0, <<>>)

\* record.get("recordId", "")
RecordId(record) ==
    IF record.recordId = None THEN "" ELSE Value(record.recordId)

\* data.get("file_data") of a dict, with data = {} when the record has none
FileData(record) ==
    IF record.data.kind = "absent" THEN [kind |-> "absent"]
    ELSE record.data.file_data

\* 'not file_data or not isinstance(file_data, dict)'
FileDataMissing(file_data) == file_data.kind \in {"absent", "falsy", "notdict"}

\* mutation: the payload test is 'b64_data is None'
EmptyPayloadIsNone(payload) == FALSE

\* 'not b64_data' for b64_data = file_data.get("data", "")
EmptyPayload(payload) == payload.kind \in {"absent", "empty"}

\* base64.b64decode(b64_data)
B64Raises(payload) == ~payload.b64.decodes
B64Decode(payload) == payload.b64.bytes

WithError(output, message) ==
    [output EXCEPT !.errors = Append(@, message)]

\* out_data, with the chunks when chunking is enabled
OutData(ex, cfg) ==
    LET out_data == [content |-> ex.content,
                     page_count |-> ex.page_count,
                     word_count |-> ex.word_count,
                     character_count |-> ex.character_count,
                     metadata_title |-> ex.title,
                     metadata_author |-> ex.author,
                     metadata_created_date |-> ex.created_date,
                     metadata_modified_date |-> ex.modified_date,
                     metadata |-> ex.metadata,
                     pages |-> ex.pages]
        chunked == SplitByPages(ex.content, cfg.max_length, cfg.overlap)
    IN  IF cfg.enabled
        THEN out_data @@ [chunks |-> chunked, chunk_count |-> Len(chunked)]
        ELSE out_data

\* what one pass of the loop body did: the entries it appended to results,
\* whether it ran the engine and the chunker, whether an exception left it
Pass(entries, engine, chunker) ==
    [appended |-> entries, engine |-> engine, chunker |-> chunker, escaped |-> FALSE]

\* mutation: the handler does not catch the exception
OuterExceptUncaught(output, engine) ==
    [appended |-> <<>>, engine |-> engine, chunker |-> FALSE, escaped |-> TRUE]

\* 'except Exception as exc', then the append after the try statement
OuterExcept(output, engine) ==
    Pass(<<WithError(output, ExtractionFailed)>>, engine, FALSE)

ProcessOne(record, cfg) ==
    LET output == [recordId |-> RecordId(record), data |-> EmptyDict,
                   errors |-> <<>>, warnings |-> <<>>]
    IN  IF record.data.kind = "notdict"
        THEN \* data.get raises AttributeError inside the try
             OuterExcept(output, FALSE)
        ELSE LET file_data == FileData(record)
             IN  IF FileDataMissing(file_data)
                 THEN Pass(<<WithError(output, MissingFileData)>>, FALSE, FALSE)
                 ELSE IF EmptyPayload(file_data.data)
                 THEN Pass(<<WithError(output, EmptyFileData)>>, FALSE, FALSE)
                 ELSE IF B64Raises(file_data.data)
                 THEN Pass(<<WithError(output, InvalidBase64)>>, FALSE, FALSE)
                 ELSE LET ex == ExtractPdf(B64Decode(file_data.data))
                      IN  IF ex.raised
                          THEN OuterExcept(output, TRUE)
                          ELSE Pass(<<[output EXCEPT
                                         !.data = OutData(Value(ex.value), cfg)]>>,
                                    TRUE, cfg.enabled)

(***************************************************************************)
(* Requests.                                                               *)
(***************************************************************************)
DocA == [page_texts |-> << <<"a", " ", "a">>, <<>>, <<"a", ".", "\n">> >>,
         info |-> PlainInfo, creation |-> PlainCalendar,
         modification |-> None, version |-> 14]
DocB == [page_texts |-> << <<"a">> >>,
         info |-> [k \in InfoKeys |-> Some(<<" ">>)], creation |-> None,
         modification |-> Some([millis |-> MaxDatetimeMillis + 1]), version |-> 0]

NotBase64 == [decodes |-> FALSE, bytes |-> CorruptBytes]
Base64Of(bytes) == [decodes |-> TRUE, bytes |-> bytes]

\* the empty string decodes to no bytes, which the engine cannot load
NoPayload(kind) == [kind |-> kind, b64 |-> Base64Of(CorruptBytes)]

Payloads ==
    {NoPayload("absent"), NoPayload("empty"),
     [kind |-> "str", b64 |-> NotBase64],
     [kind |-> "str", b64 |-> Base64Of(CorruptBytes)],
     [kind |-> "str", b64 |-> Base64Of(BytesOf(DocA))],
     [kind |-> "str", b64 |-> Base64Of(BytesOf(DocB))]}

NoFileData(kind) == [kind |-> kind, data |-> NoPayload("absent")]
FileDatas ==
    {NoFileData("absent"), NoFileData("falsy"), NoFileData("notdict")}
    \cup {[kind |-> "dict", data |-> p] : p \in Payloads}

NoData(kind) == [kind |-> kind, file_data |-> NoFileData("absent")]
Datas ==
    {NoData("absent"), NoData("notdict")}
    \cup {[kind |-> "dict", file_data |-> fd] : fd \in FileDatas}

RecordIds == {None, Some("r1"), Some("r2")}
Records == [recordId : RecordIds, data : Datas]

RECURSIVE BatchesOfLen(_)
BatchesOfLen(n) ==
    IF n = 0 THEN {<<>>}
    ELSE {Append(b, r) : b \in BatchesOfLen(n - 1), r \in Records}

Batches == UNION {BatchesOfLen(k) : k \in 0..MaxRecords}

Configs == {[enabled |-> FALSE, max_length |-> 2000, overlap |-> 0],
            [enabled |-> TRUE, max_length |-> 2000, overlap |-> 0],
            [enabled |-> TRUE, max_length |-> 2, overlap |-> 1]}

(***************************************************************************)
(* pdf_extraction as a state machine.                                      *)
(***************************************************************************)
InitBatch ==
    /\ SplitIdle
    /\ ExtractIdle
    /\ SentenceIdle
    /\ config \in Configs
    /\ values \in Batches
    /\ idx = 1
    /\ results = <<>>
    /\ engine_calls = {}
    /\ chunker_calls = {}
    /\ bpc = "loop"

\* one pass through 'for record in values'
ProcessRecord ==
    /\ bpc = "loop"
    /\ idx <= Len(values)
    /\ LET pass == ProcessOne(values[idx], config)
       IN  /\ results' = results \o pass.appended
           /\ engine_calls' = engine_calls \cup (IF pass.engine THEN {idx} ELSE {})
           /\ chunker_calls' = chunker_calls \cup (IF pass.chunker THEN {idx} ELSE {})
           /\ bpc' = IF pass.escaped THEN "aborted" ELSE "loop"
    /\ idx' = idx + 1
    /\ UNCHANGED <<config, values>>
    /\ UNCHANGED <<chunkVars, extractVars, sentenceVars>>

\* return jsonify({"values": results})
Respond ==
    /\ bpc = "loop"
    /\ idx > Len(values)
    /\ bpc' = "responded"
    /\ UNCHANGED <<config, values, idx, results, engine_calls, chunker_calls>>
    /\ UNCHANGED <<chunkVars, extractVars, sentenceVars>>

NextBatch == ProcessRecord \/ Respond

SpecBatch == InitBatch /\ [][NextBatch]_vars

(***************************************************************************)
(* split_by_sentences.                                                     *)
(***************************************************************************)
\* mutation: the question mark does not end a sentence
IsTerminatorNoQuestion(ch) == ch \in {".", "!"}

\* 'ch in ".!?"'
IsTerminator(ch) == ch \in {".", "!", "?"}

\* 'if s: sentences.append(s)'
AppendSentence(ss, sentence) ==
    IF sentence # <<>> THEN Append(ss, sentence) ELSE ss

SentenceAlphabet == {"a", " ", ".", "!", "?"}

RECURSIVE SentenceTextsOfLen(_)
SentenceTextsOfLen(n) ==
    IF n = 0 THEN {<<>>}
    ELSE {Append(t, c) : t \in SentenceTextsOfLen(n - 1), c \in SentenceAlphabet}

HelloWorldOk == <<"H", "e", "l", "l", "o", ".", " ", "W", "o", "r", "l", "d", "!",
                  " ", "O", "k", "?">>
NoTerminator == <<"n", "o", " ", "t", "e", "r", "m", "i", "n", "a", "t", "o", "r">>

SentenceTexts ==
    UNION {SentenceTextsOfLen(k) : k \in 0..MaxSentenceLen}
    \cup {HelloWorldOk, NoTerminator}

InitSentences ==
    /\ SplitIdle
    /\ ExtractIdle
    /\ BatchIdle
    /\ s_text \in SentenceTexts
    /\ s_pos = 1
    /\ sentences = <<>>
    /\ current = <<>>
    /\ spc = "scan"

\* one pass through 'for ch in text'
SentenceScan ==
    /\ spc = "scan"
    /\ s_pos <= Len(s_text)
    /\ LET ch == s_text[s_pos]
           buffer == Append(current, ch)
       IN  IF IsTerminator(ch)
           THEN /\ sentences' = AppendSentence(sentences, Strip(buffer))
                /\ current' = <<>>
           ELSE /\ sentences' = sentences
                /\ current' = buffer
    /\ s_pos' = s_pos + 1
    /\ UNCHANGED <<s_text, spc>>
    /\ UNCHANGED <<chunkVars, extractVars, batchVars>>

\* the remainder after the loop, and the return
SentenceReturn ==
    /\ spc = "scan"
    /\ s_pos > Len(s_text)
    /\ sentences' = AppendSentence(sentences, Strip(current))
    /\ spc' = "done"
    /\ UNCHANGED <<s_text, s_pos, current>>
    /\ UNCHANGED <<chunkVars, extractVars, batchVars>>

NextSentences == SentenceScan \/ SentenceReturn

SpecSentences == InitSentences /\ [][NextSentences]_vars

Init == InitSplit
Next == NextSplit
Spec == Init /\ [][Next]_vars

\* the loop is never suspended: a pure CPU-bound scan
FairSpec == InitLive /\ [][Next]_vars /\ WF_vars(Next)

(***************************************************************************)
(* Properties of split_by_pages.                                           *)
(***************************************************************************)
RECURSIVE Concat(_)
Concat(ss) == IF ss = <<>> THEN <<>> ELSE Head(ss) \o Concat(Tail(ss))

\* s without its whitespace characters
NonSpace(s) == SelectSeq(s, LAMBDA c : ~IsSpace(c))

SliceEnd(sl) == sl.position + sl.length

\* C1: split_by_pages terminates for every text, max_length >= 1 and
\* overlap >= 0 (overlap <= max_length or overlap > max_length): every
\* iteration of the loop strictly increases position, and the loop is left.
C1_Terminates ==
    /\ [][pc = "loop" /\ pc' = "loop" => position' > position]_vars
    /\ <>(pc = "done")

\* the loop was left after several iterations with overlap > max_length
C1_Witness ==
    /\ pc = "done"
    /\ overlap > max_length
    /\ Len(slices) >= 3

\* C2: with overlap = 0 the chunks joined without separators are the text
\* with only whitespace removed: the slices tile the text from 0 to its end,
\* each chunk is its slice trimmed, and the non-whitespace characters of the
\* joined chunks are those of the text, in order.
C2_ReconstructsText ==
    (pc = "done" /\ overlap = 0) =>
        /\ NonSpace(Concat(chunks)) = NonSpace(text)
        /\ \A i \in 1..Len(slices) :
              SliceEnd(slices[i]) =
                  IF i = Len(slices) THEN Len(text) ELSE slices[i + 1].position
        /\ \A i \in 1..Len(chunks) :
              \E j \in 1..Len(slices) :
                  chunks[i] = Strip(Slice(text, slices[j].position, SliceEnd(slices[j])))

\* a text with inner whitespace was split into several chunks at overlap 0
C2_Witness ==
    /\ pc = "done"
    /\ overlap = 0
    /\ Len(chunks) >= 2
    /\ Concat(chunks) # text
    /\ NonSpace(text) # <<>>

\* C3: every chunk except possibly the last has length <= max_length.
C3_ChunkLengthBounded ==
    pc = "done" =>
        \A i \in 1..(Len(chunks) - 1) : Len(chunks[i]) <= max_length

\* a break was accepted and chunks before the last were emitted
C3_Witness ==
    /\ pc = "done"
    /\ Len(chunks) >= 3
    /\ \E i \in 1..Len(slices) :
          /\ SliceEnd(slices[i]) < Len(text)
          /\ slices[i].length < max_length

\* C4: a text that is not whitespace-only and shorter than max_length yields
\* exactly one chunk, the trimmed text, for every overlap >= 0.
C4_ShortTextOneChunk ==
    (pc = "done" /\ Len(text) < max_length /\ Strip(text) # <<>>) =>
        chunks = <<Strip(text)>>

\* C5: overlap applies only between consecutive chunks: the first slice
\* starts at 0, and once a slice that reaches the end of the text has been
\* processed no further chunk is emitted.
C5_NoChunkAfterLast ==
    /\ (slices # <<>> => slices[1].position = 0)
    /\ \A i \in 1..Len(slices) : \A j \in 1..Len(slices) :
          (i < j /\ SliceEnd(slices[i]) = Len(text)) => ~slices[j].emitted

(***************************************************************************)
(* Properties of extract_pdf.                                              *)
(***************************************************************************)
\* the number of maximal runs of non-whitespace characters of s
TokenCount(s) ==
    Cardinality({i \in 1..Len(s) : ~IsSpace(s[i]) /\ (i = 1 \/ IsSpace(s[i - 1]))})

\* the texts in order, each but the first preceded by two newlines
SeparatedByBlankLine(texts) ==
    Concat([i \in 1..Len(texts) |->
               IF i = 1 THEN texts[i] ELSE <<"\n", "\n">> \o texts[i]])

IsBlank(val) == val = None \/ \A i \in 1..Len(Value(val)) : IsSpace(Value(val)[i])

\* C8: in the result of extract_pdf, content is the per-page texts joined by
\* two newlines in page order, character_count = len(content), word_count is
\* the number of whitespace-delimited tokens of content, len(pages) =
\* page_count, and pages[i] has page_num = i+1 (1-based: i), the engine's
\* text of that page and char_count = len(text).
C8_ResultInvariant ==
    xpc = "done" =>
        LET r == Value(extracted)
        IN  /\ r.content = SeparatedByBlankLine(doc.page_texts)
            /\ r.character_count = Len(r.content)
            /\ r.word_count = TokenCount(r.content)
            /\ Len(r.pages) = r.page_count
            /\ r.page_count = Len(doc.page_texts)
            /\ \A i \in 1..Len(r.pages) :
                  /\ r.pages[i].page_num = i
                  /\ r.pages[i].text = doc.page_texts[i]
                  /\ r.pages[i].char_count = Len(r.pages[i].text)

\* a document of several pages, one of them blank, was extracted
C8_Witness ==
    /\ xpc = "done"
    /\ Len(Value(extracted).pages) >= 3
    /\ \E i \in 1..Len(doc.page_texts) : doc.page_texts[i] = <<>>
    /\ Value(extracted).word_count >= 2

\* C9: title and author are None when the source value is missing, empty or
\* whitespace-only, and a key among subject, keywords, creator, producer is
\* in metadata only when the source value is non-empty and not
\* whitespace-only.
C9_BlankIsAbsent ==
    xpc = "done" =>
        LET r == Value(extracted)
        IN  /\ IsBlank(doc.info["Title"]) => r.title = None
            /\ IsBlank(doc.info["Author"]) => r.author = None
            /\ \A k \in MetaKeys :
                  k \in DOMAIN r.metadata => ~IsBlank(doc.info[MetaFields[k]])

\* the conversion of a calendar succeeds
Converts(cal) == cal # None /\ Value(cal).millis <= MaxDatetimeMillis

IsIso(val) == val # None /\ Value(val).fmt = "iso8601+00:00"

\* C10: _java_calendar_to_iso returns an ISO-8601 UTC timestamp when the
\* conversion succeeds, and None, without raising, when the date is missing
\* or the conversion fails.
C10_AbsentOnFailure ==
    xpc = "done" =>
        LET r == Value(extracted)
        IN  /\ IF Converts(doc.creation)
               THEN IsIso(r.created_date) ELSE r.created_date = None
            /\ IF Converts(doc.modification)
               THEN IsIso(r.modified_date) ELSE r.modified_date = None

(***************************************************************************)
(* Properties of pdf_extraction.                                           *)
(***************************************************************************)
\* file_data or file_data.data of the record is absent or empty
PayloadAbsent(record) ==
    \/ record.data.kind = "absent"
    \/ /\ record.data.kind = "dict"
       /\ \/ record.data.file_data.kind \in {"absent", "falsy"}
          \/ /\ record.data.file_data.kind = "dict"
             /\ record.data.file_data.data.kind \in {"absent", "empty"}

\* the record carries the base64 of a document the engine loads
ValidRecord(record) ==
    /\ record.data.kind = "dict"
    /\ record.data.file_data.kind = "dict"
    /\ record.data.file_data.data.kind = "str"
    /\ record.data.file_data.data.b64.decodes
    /\ record.data.file_data.data.b64.bytes.loads

DocumentOf(record) == record.data.file_data.data.b64.bytes.document

C7_MissingPayloadIsolated ==
    \A i \in 1..Len(results) :
        i <= Len(values) =>
            /\ PayloadAbsent(values[i]) =>
                  /\ results[i].errors # <<>>
                  /\ results[i].data = EmptyDict
                  /\ i \notin engine_calls
                  /\ i \notin chunker_calls
            /\ ValidRecord(values[i]) =>
                  /\ results[i].errors = <<>>
                  /\ i \in engine_calls
                  /\ DOMAIN results[i].data # {}
                  /\ results[i].data.content =
                         SeparatedByBlankLine(DocumentOf(values[i]).page_texts)
                  /\ results[i].data.page_count = Len(DocumentOf(values[i]).page_texts)
                  /\ Len(results[i].data.pages) = results[i].data.page_count
                  /\ config.enabled =>
                        /\ i \in chunker_calls
                        /\ results[i].data.chunk_count = Len(results[i].data.chunks)
                        /\ NonSpace(Concat(results[i].data.chunks)) # <<>>

\* a batch answered with a record without payload before a valid one
C7_Witness ==
    /\ bpc = "responded"
    /\ Len(values) >= 2
    /\ PayloadAbsent(values[1])
    /\ values[1].data.kind = "dict"
    /\ values[1].data.file_data.kind = "dict"
    /\ ValidRecord(values[2])
    /\ config.enabled
    /\ results[2].data.chunk_count >= 2

(***************************************************************************)
(* Properties of split_by_sentences.                                       *)
(***************************************************************************)
Terminators == {".", "!", "?"}

\* the offsets (from 1) of the terminators of s
CutPoints(s) == {i \in 1..Len(s) : s[i] \in Terminators}

\* the pieces of s cut immediately after each terminator, the last one
\* being what follows the last terminator
RECURSIVE PiecesFrom(_, _)
PiecesFrom(s, from) ==
    IF from > Len(s) THEN <<>>
    ELSE LET cuts == {i \in CutPoints(s) : i >= from}
         IN  IF cuts = {} THEN <<SubSeq(s, from, Len(s))>>
             ELSE LET cut == CHOOSE i \in cuts : \A j \in cuts : i <= j
                  IN  <<SubSeq(s, from, cut)>> \o PiecesFrom(s, cut + 1)

TrimmedNonEmpty(pieces) ==
    SelectSeq([i \in 1..Len(pieces) |-> Strip(pieces[i])], LAMBDA piece : piece # <<>>)

\* C11: split_by_sentences returns, in order, the trimmed non-empty segments
\* of the text cut immediately after each '.', '!' or '?', then the trimmed
\* trailing fragment if non-empty: every sentence is non-empty, only the last
\* may lack a terminator, a terminator occurs only as the last character of a
\* sentence, "Hello. World! Ok?" gives <<"Hello.", "World!", "Ok?">> and
\* "no terminator" gives itself.
C11_SentencesAreSegments ==
    spc = "done" =>
        /\ sentences = TrimmedNonEmpty(PiecesFrom(s_text, 1))
        /\ \A i \in 1..Len(sentences) :
              /\ sentences[i] # <<>>
              /\ i < Len(sentences) => sentences[i][Len(sentences[i])] \in Terminators
              /\ \A k \in 1..(Len(sentences[i]) - 1) : sentences[i][k] \notin Terminators
        /\ s_text = HelloWorldOk =>
              sentences = << <<"H", "e", "l", "l", "o", ".">>,
                             <<"W", "o", "r", "l", "d", "!">>,
                             <<"O", "k", "?">> >>
        /\ s_text = NoTerminator => sentences = <<NoTerminator>>

\* a text was cut into trimmed sentences and an unterminated last fragment
C11_Witness ==
    /\ spc = "done"
    /\ Len(sentences) >= 2
    /\ sentences[Len(sentences)][Len(sentences[Len(sentences)])] \notin Terminators
    /\ \E i \in 1..Len(s_text) : s_text[i] = "?"
    /\ Len(Concat(sentences)) < Len(s_text)

(***************************************************************************)
(* Properties of split_by_pages on "A." * 150.                             *)
(***************************************************************************)
IsSentenceRun ==
    /\ text = SentenceRun
    /\ max_length = SentenceRunInput[3]
    /\ overlap = SentenceRunInput[4]

\* the offsets at which a slice ends before the end of the text
Boundaries == {SliceEnd(slices[i]) : i \in 1..Len(slices)} \ {Len(text)}

\* the boundary at offset b separates an 'A' from its '.'
MidToken(b) == b >= 1 /\ text[b] = "A" /\ text[b + 1] = "."

\* C12 as stated: on "A." * 150 with max_length 100 and overlap 0 there are
\* exactly 3 chunks, and each chunk boundary falls at or after a ". " near
\* position 100 and never between an 'A' and its '.'.
C12_BoundaryAfterSentenceBreak ==
    IsSentenceRun =>
        /\ pc = "done" => Len(chunks) = 3
        /\ \A b \in Boundaries :
              /\ ~MidToken(b)
              /\ \E k \in 0..b :
                    /\ OccursAt(text, SentenceBreak, k)
                    /\ b - k <= LookBack

\* C12 as amended: exactly 3 chunks, and each chunk boundary is the hard cut
\* at a multiple of 100, immediately after a '.' and before an 'A', never
\* between an 'A' and its '.'.
C12_BoundaryAfterPeriod ==
    IsSentenceRun =>
        /\ pc = "done" =>
              /\ Len(chunks) = 3
              /\ \A i \in 1..3 : chunks[i] = RepSeq(<<"A", ".">>, 50)
        /\ \A i \in 1..Len(slices) :
              /\ slices[i].position = 100 * (i - 1)
              /\ slices[i].length = 100
        /\ \A b \in Boundaries :
              /\ ~MidToken(b)
              /\ text[b] = "."
              /\ text[b + 1] = "A"

\* the run was split to its end
C12_Witness ==
    /\ IsSentenceRun
    /\ pc = "done"
    /\ Len(slices) = 3
    /\ Boundaries = {100, 200}

(***************************************************************************)
(* Properties of the break search and of the advance of split_by_pages.    *)
(***************************************************************************)
\* the tentative length of the slice taken at pos
Tentative(pos) == Min(max_length, Len(text) - pos)

\* the break of highest priority among those strictly after search_start,
\* or -1 when no level has one
QualifyingBreak(window, search_start) ==
    LET paragraph == RFind(window, <<"\n", "\n">>)
        sentence == RFind(window, <<".", " ">>)
        word == RFind(window, <<" ">>)
    IN  IF paragraph > search_start THEN paragraph
        ELSE IF sentence > search_start THEN sentence
        ELSE IF word > search_start THEN word
        ELSE -1

\* C13: when the tentative window does not reach the end of the text, the
\* break is the last paragraph, sentence or word break, in that priority,
\* that lies strictly after searchStart = max(0, length - 100); a candidate
\* not strictly after searchStart, also one exactly at it, makes the search
\* fall through to the next level; an accepted break bp sets length = bp + 1,
\* and the cut is hard only when no level has a candidate after searchStart.
C13_BreakPriority ==
    \A i \in 1..Len(slices) :
        LET pos == slices[i].position
            tentative == Tentative(pos)
            search_start == Max(0, tentative - 100)
            bp == QualifyingBreak(SubSeq(text, pos + 1, pos + tentative), search_start)
        IN  pos + tentative < Len(text) =>
                slices[i].length = IF bp > search_start THEN bp + 1 ELSE tentative

\* C14: consecutive slices leave no gap and repeat exactly the overlap: after
\* a slice with overlap < length the next slice starts at position + length -
\* overlap and its first overlap characters are the last overlap characters
\* of the slice; after a slice with overlap >= length the next slice starts
\* at position + length; every character index of the text lies in a slice.
C14_OverlapRepeated ==
    /\ \A i \in 1..(Len(slices) - 1) :
          LET cur == slices[i]
              nxt == slices[i + 1]
          IN  IF overlap < cur.length
              THEN /\ nxt.position = SliceEnd(cur) - overlap
                   /\ nxt.length >= overlap
                   /\ SubSeq(text, nxt.position + 1, nxt.position + overlap)
                          = SubSeq(text, SliceEnd(cur) - overlap + 1, SliceEnd(cur))
              ELSE nxt.position = SliceEnd(cur)
    /\ pc = "done" =>
          \A k \in 0..(Len(text) - 1) :
              \E i \in 1..Len(slices) :
                  slices[i].position <= k /\ k < SliceEnd(slices[i])

====